---- MODULE Spec2Model ----
(***************************************************************************)
(* Model of server.js: the deploy handler, the detached build simulator    *)
(* (simulateBuild), the log-append endpoint and the run reader, over the   *)
(* three store tables projects, runs and run_logs.                         *)
(*                                                                         *)
(* Every `await` of a store call is one atomic step of the store, so the   *)
(* handlers and the drivers interleave exactly at their awaits.            *)
(* Strings that the code builds by concatenation are sequences of string   *)
(* fragments ('a' + 'b' is <<"a">> \o <<"b">>); SQL NULL / undefined text   *)
(* is the empty sequence or the empty string.                              *)
(***************************************************************************)
EXTENDS Integers, Sequences, FiniteSets, TLC

(* ------------------------------ bounds -------------------------------- *)
\* deploy requests that pass validation (each creates at most one run)
MaxDeploys == 2
\* store calls of the drivers that fail (in total, over all drivers)
MaxFaults == 2
\* requests to POST /api/logs/:runId that reach the store
MaxPosts == 1

(* --------------------------- input domains ---------------------------- *)
\* Authorization header tokens: none, one the identity provider rejects,
\* and one per known user.
Tokens == {"", "bad", "t1", "t2"}

\* supabase.auth.getUser(token): the user id, "" when there is none
GetUser(token) ==
  CASE token = "t1" -> "u1"
    [] token = "t2" -> "u2"
    [] OTHER -> ""

\* verifyUser: req.user (its id), "" for req.user = null
verifyUser(token) == IF token = "" THEN "" ELSE GetUser(token)

Payloads ==
  { [name |-> "alpha", repo |-> "r1", framework |-> "f1", region |-> ""],
    [name |-> "alpha", repo |-> "",   framework |-> "f2", region |-> "eu"],
    [name |-> "beta",  repo |-> "r2", framework |-> "",   region |-> ""],
    [name |-> "",      repo |-> "r1", framework |-> "",   region |-> ""] }

\* request bodies: { payload: P }, and a bare payload P with and without name
Bodies == { [payload |-> p] : p \in Payloads }
            \cup { p \in Payloads : p.repo = "r1" }

\* req.body.payload || req.body
PayloadOf(body) == IF "payload" \in DOMAIN body THEN body.payload ELSE body

\* a || b on strings
Or(a, b) == IF a # "" THEN a ELSE b

(* ------------------------------ driver -------------------------------- *)
steps == << "Cloning repo", "Installing dependencies", "Building assets",
            "Running tests", "Packaging", "Uploading", "Activating services" >>

\* Math.floor(10 + Math.random()*40): the two ends of its range
BuildSeconds == {"10", "49"}

\* err.message of a rejected store call
ErrMessage == "store unavailable"

\* outcome of one store call: applied; resolved with { error } (nothing
\* written, nothing thrown: the way lines 67-73, 102-103, 122-123 and 143-152
\* receive a failure); or rejected (thrown at the await)
Outcomes == {"ok", "error", "throw"}

NoRow == [id |-> 0, name |-> "", repo |-> "", framework |-> "", region |-> "",
          owner |-> "", visitors |-> 0]

VARIABLES
  projects,   \* table projects: sequence of rows, id = position
  runs,       \* table runs: sequence of rows, id = position
  run_logs,   \* table run_logs: per run_id, its rows in insertion order
  reqs,       \* deploy handlers: their locals and position
  drv,        \* simulateBuild invocations, in the order they were started
  posts,      \* number of log inserts made through POST /api/logs
  resp        \* the HTTP response sent by the last step, if any

vars == << projects, runs, run_logs, reqs, drv, posts, resp >>

NoResp == [ep |-> "none", status |-> 0]

RunIds == 1 .. (MaxDeploys + 1)

(* ------------------------------ store --------------------------------- *)
\* latest timestamp among the entries in logs written by one of bys (0: none)
RECURSIVE MaxTs(_, _)
MaxTs(logs, bys) ==
  IF logs = << >> THEN 0
  ELSE LET rest == MaxTs(Tail(logs), bys)
           h == Head(logs)
       IN IF h.by \in bys /\ h.ts > rest THEN h.ts ELSE rest

Writers == {"driver", "api"}

\* The timestamps the store may assign to a new entry of a run.  The store
\* stamps ts with its clock, which never runs backwards, and reads compare
\* only the entries of one run (the table is kept per run_id for the same
\* reason), so a stamp is kept relative to the run's
\* latest entry m: m again (the same instant) or m + 1 (later).  When the
\* driver has slept since its own latest entry, the new stamp is past it.
Stamps(runId, slept) ==
  LET m == MaxTs(run_logs[runId], Writers)
  IN IF m = 0 THEN {1}
     ELSE IF slept /\ MaxTs(run_logs[runId], {"driver"}) = m THEN {m + 1}
     ELSE {m, m + 1}

\* run_logs.insert([{ run_id, level, message }]); `by` records who called
InsertLog(runId, level, message, by, ts) ==
  run_logs' = [run_logs EXCEPT ![runId] = Append(@,
       [run_id |-> runId, level |-> level, message |-> message,
        ts |-> ts, by |-> by])]

Init ==
  /\ projects \in { << >>, << [NoRow EXCEPT !.id = 1, !.name = "alpha"] >> }
  /\ runs = << >>
  /\ run_logs = [r \in RunIds |-> << >>]
  /\ reqs = << >>
  /\ drv = << >>
  /\ posts = 0
  /\ resp = NoResp

(* ------------------------- POST /api/deploy --------------------------- *)
InFlight == Len(runs) + Len(reqs)

RemoveAt(s, k) == SubSeq(s, 1, k - 1) \o SubSeq(s, k + 1, Len(s))

\* rows of the projects table with the given name
ByName(name) == { k \in 1 .. Len(projects) : projects[k].name = name }

\* the driver as the deploy handler leaves it: simulateBuild has run up to
\* its first await (the update of line 190 is on its way to the store)
NewDriver(runId, projectId) ==
  [runId |-> runId, proj |-> projectId,
   pc |-> "upd_running", i |-> 0, buildTime |-> << >>,
   slept |-> FALSE,
   \* what happened so far, for the properties: failed calls, the outcome of
   \* the rpc call, of the latest runs.update, a failed call in the catch
   \* block, an insert of the try block that resolved with { error }
   nfail |-> 0, rpc |-> "none", upd |-> "none", catchFail |-> FALSE,
   skipped |-> FALSE]

Validate_NoNameCheck(user, payload) == IF user = "" THEN 401 ELSE 0

\* the status the handler answers before any store call (0: none, go on)
Validate(user, payload) ==
  IF user = "" THEN 401
  ELSE IF payload.name = "" THEN 400
  ELSE 0

\* lines 134-136: the request is refused before any store call
DeployReject(token, body) ==
  /\ Validate(verifyUser(token), PayloadOf(body)) # 0
  /\ resp' = [ep |-> "deploy",
              status |-> Validate(verifyUser(token), PayloadOf(body)),
              \* for the properties: what the request was like
              authed |-> verifyUser(token) # "",
              named |-> PayloadOf(body).name # ""]
  /\ UNCHANGED << projects, runs, run_logs, reqs, drv, posts >>

\* lines 132-139: the request passes validation; the select is issued
DeployStart(token, body) ==
  /\ Validate(verifyUser(token), PayloadOf(body)) = 0
  /\ InFlight < MaxDeploys
  /\ reqs' = Append([k \in 1 .. Len(reqs) |-> [reqs[k] EXCEPT !.conc = TRUE]],
                    [user |-> verifyUser(token), payload |-> PayloadOf(body),
                     pc |-> "select", existing |-> NoRow, project |-> NoRow,
                     \* for the properties: another handler was in flight
                     \* during this one; the table when the request arrived
                     conc |-> reqs # << >>, before |-> projects])
  /\ resp' = NoResp
  /\ UNCHANGED << projects, runs, run_logs, drv, posts >>

OwnerMissing_Always(row) == TRUE

\* line 157: !project.owner
OwnerMissing(row) == row.owner = ""

\* line 139: select * from projects where name = payload.name limit 1
\* (maybeSingle): any one of the matching rows, or none
DeploySelect(h) ==
  /\ reqs[h].pc = "select"
  /\ \E row \in IF ByName(reqs[h].payload.name) = {} THEN {NoRow}
                ELSE { projects[k] : k \in ByName(reqs[h].payload.name) } :
       reqs' = [reqs EXCEPT ![h].existing = row,
                            ![h].project = row,
                            ![h].pc = IF row = NoRow THEN "insert"
                                      ELSE IF OwnerMissing(row) THEN "upd_owner"
                                      ELSE "upd_fields"]
  /\ resp' = NoResp
  /\ UNCHANGED << projects, runs, run_logs, drv, posts >>

\* lines 143-153: insert the project row, owner = req.user.id
DeployInsert(h) ==
  /\ reqs[h].pc = "insert"
  /\ LET row == [id |-> Len(projects) + 1,
                 name |-> reqs[h].payload.name,
                 repo |-> Or(reqs[h].payload.repo, ""),
                 framework |-> Or(reqs[h].payload.framework, ""),
                 region |-> Or(reqs[h].payload.region, ""),
                 owner |-> reqs[h].user,
                 visitors |-> 0]
     IN /\ projects' = Append(projects, row)
        /\ reqs' = [reqs EXCEPT ![h].project = row, ![h].pc = "ins_run"]
  /\ resp' = NoResp
  /\ UNCHANGED << runs, run_logs, drv, posts >>

\* lines 157-160: the row read had no owner: update owner where id =
\* project.id, then project.owner = req.user.id
DeployUpdateOwner(h) ==
  /\ reqs[h].pc = "upd_owner"
  /\ projects' = [projects EXCEPT ![reqs[h].project.id].owner = reqs[h].user]
  /\ reqs' = [reqs EXCEPT ![h].project.owner = reqs[h].user,
                          ![h].pc = "upd_fields"]
  /\ resp' = NoResp
  /\ UNCHANGED << runs, run_logs, drv, posts >>

\* lines 158-159 when the update resolves with { error }: the result is not
\* read, so nothing is written and the handler goes on with its own copy
DeployUpdateOwnerLost(h) ==
  /\ reqs[h].pc = "upd_owner"
  /\ reqs' = [reqs EXCEPT ![h].project.owner = reqs[h].user,
                          ![h].pc = "upd_fields"]
  /\ resp' = NoResp
  /\ UNCHANGED << projects, runs, run_logs, drv, posts >>

\* lines 162-166: update repo/framework/region where id = project.id
DeployUpdateFields(h) ==
  /\ reqs[h].pc = "upd_fields"
  /\ LET p == reqs[h].project
         q == reqs[h].payload
     IN projects' = [projects EXCEPT
          ![p.id].repo = Or(q.repo, p.repo),
          ![p.id].framework = Or(q.framework, p.framework),
          ![p.id].region = Or(q.region, p.region)]
  /\ reqs' = [reqs EXCEPT ![h].pc = "ins_run"]
  /\ resp' = NoResp
  /\ UNCHANGED << runs, run_logs, drv, posts >>

StartDriver_Twice(runId, projectId) ==
  Append(Append(drv, NewDriver(runId, projectId)), NewDriver(runId, projectId))

\* line 177: simulateBuild(run.id, project), not awaited
StartDriver(runId, projectId) == Append(drv, NewDriver(runId, projectId))

DeployAwaitsDriver_Yes == TRUE

\* line 177: the promise simulateBuild returns is given a .catch and is not
\* awaited
DeployAwaitsDriver == FALSE

\* lines 170-179: insert the run (queued), start simulateBuild without
\* awaiting it, answer { runId, projectId, status: 'queued' }
DeployInsertRun(h) ==
  /\ reqs[h].pc = "ins_run"
  /\ LET id == Len(runs) + 1
     IN /\ runs' = Append(runs, [id |-> id, project_id |-> reqs[h].project.id,
                                 status |-> "queued", finished_at |-> FALSE,
                                 build_time |-> << >>])
        /\ drv' = StartDriver(id, reqs[h].project.id)
        /\ resp' = IF DeployAwaitsDriver THEN NoResp
                   ELSE
                   [ep |-> "deploy", status |-> 200, runId |-> id,
                    projectId |-> reqs[h].project.id, run_status |-> "queued",
                    authed |-> reqs[h].user # "",
                    named |-> reqs[h].payload.name # "",
                    user |-> reqs[h].user, name |-> reqs[h].payload.name,
                    payload |-> reqs[h].payload, conc |-> reqs[h].conc,
                    before |-> reqs[h].before]
  /\ reqs' = IF DeployAwaitsDriver THEN [reqs EXCEPT ![h].pc = "await_driver"]
             ELSE RemoveAt(reqs, h)
  /\ UNCHANGED << projects, run_logs, posts >>

DeployHandler(h) ==
  \/ DeploySelect(h)
  \/ DeployInsert(h)
  \/ DeployUpdateOwner(h)
  \/ DeployUpdateFields(h)
  \/ DeployInsertRun(h)

(* --------------------------- simulateBuild ---------------------------- *)
RECURSIVE SumFails(_)
SumFails(k) == IF k = 0 THEN 0 ELSE drv[k].nfail + SumFails(k - 1)

\* the outcomes the next store call may have, O being those the store has
Allowed(O) == IF SumFails(Len(drv)) < MaxFaults THEN O ELSE {"ok"}

Failed(o) == IF o = "ok" THEN 0 ELSE 1

After_Continue(o, next) == next

\* where the try block continues after an awaited call: the next statement,
\* or the catch block when the call was rejected
After(o, next) == IF o = "throw" THEN "catch_upd" ELSE next

\* where the catch block continues: a rejected call there rejects the
\* promise simulateBuild returned (line 177 logs it)
AfterCatch(o, next) == IF o = "throw" THEN "rejected" ELSE next

UpdateRun_DropFailed(o, runId, status, finished, build_time) ==
  runs' = IF o = "ok" /\ status # "failed"
          THEN [runs EXCEPT ![runId].status = status,
                            ![runId].finished_at = finished,
                            ![runId].build_time = build_time]
          ELSE runs

UpdateRun_AllRows(o, runId, status, finished, build_time) ==
  runs' = IF o = "ok"
          THEN [k \in 1 .. Len(runs) |->
                  [runs[k] EXCEPT !.status = status,
                                  !.finished_at = finished,
                                  !.build_time = build_time]]
          ELSE runs

\* runs.update(fields).eq('id', runId)
UpdateRun(o, runId, status, finished, build_time) ==
  runs' = IF o = "ok"
          THEN [runs EXCEPT ![runId].status = status,
                            ![runId].finished_at = finished,
                            ![runId].build_time = build_time]
          ELSE runs

DriverLog_DropError(o, runId, level, message, ts) ==
  IF o = "ok" /\ level # "error"
  THEN InsertLog(runId, level, message, "driver", ts)
  ELSE UNCHANGED run_logs

\* run_logs.insert([{ run_id, level, message }]) by the driver
DriverLog(o, runId, level, message, ts) ==
  IF o = "ok" THEN InsertLog(runId, level, message, "driver", ts)
  ELSE UNCHANGED run_logs

\* line 190
UpdRunning(r, O) ==
  /\ drv[r].pc = "upd_running"
  /\ \E o \in Allowed(O) :
       /\ UpdateRun(o, drv[r].runId, "running",
                    runs[drv[r].runId].finished_at, runs[drv[r].runId].build_time)
       /\ drv' = [drv EXCEPT ![r].pc = After(o, "ins_queued"),
                             ![r].upd = o,
                             ![r].nfail = @ + Failed(o)]
  /\ resp' = NoResp
  /\ UNCHANGED << projects, run_logs, reqs, posts >>

\* lines 191-195: 'Build queued', then the loop starts at i = 0
InsQueued(r, O) ==
  /\ drv[r].pc = "ins_queued"
  /\ \E o \in Allowed(O), ts \in Stamps(drv[r].runId, drv[r].slept) :
       /\ DriverLog(o, drv[r].runId, "info", << "Build queued" >>, ts)
       /\ drv' = [drv EXCEPT ![r].pc = After(o, "ins_step"),
                             ![r].i = 0,
                             ![r].skipped = @ \/ (o = "error"),
                             ![r].nfail = @ + Failed(o)]
  /\ resp' = NoResp
  /\ UNCHANGED << projects, runs, reqs, posts >>

\* lines 195-197, one turn of the loop: for i > 0 the timer of the previous
\* turn's sleep fires, then the entry steps[i] + '...' is inserted and the
\* driver sleeps.  The timer changes nothing the store holds, so its firing
\* is taken together with the store call that follows it.
InsStep(r, O) ==
  /\ drv[r].pc = "ins_step"
  /\ LET slept == drv[r].slept \/ drv[r].i > 0
     IN \E o \in Allowed(O), ts \in Stamps(drv[r].runId, slept) :
       /\ DriverLog(o, drv[r].runId, "info", << steps[drv[r].i + 1], "..." >>, ts)
       /\ drv' = [drv EXCEPT
            ![r].pc = After(o, IF drv[r].i + 1 < Len(steps) THEN "ins_step"
                               ELSE "upd_success"),
            ![r].i = IF o = "throw" THEN @ ELSE @ + 1,
            ![r].slept = IF o = "ok" THEN FALSE ELSE slept,
            ![r].skipped = @ \/ (o = "error"),
            ![r].nfail = @ + Failed(o)]
  /\ resp' = NoResp
  /\ UNCHANGED << projects, runs, reqs, posts >>

\* lines 197-200: the last sleep ends; buildTime = Math.floor(...) + 's';
\* update the run row
UpdSuccess(r, O) ==
  /\ drv[r].pc = "upd_success"
  /\ \E o \in Allowed(O), secs \in BuildSeconds :
       /\ UpdateRun(o, drv[r].runId, "success", TRUE, << secs, "s" >>)
       /\ drv' = [drv EXCEPT ![r].pc = After(o, "ins_final"),
                             ![r].buildTime = << secs, "s" >>,
                             ![r].slept = TRUE,
                             ![r].upd = o,
                             ![r].nfail = @ + Failed(o)]
  /\ resp' = NoResp
  /\ UNCHANGED << projects, run_logs, reqs, posts >>

\* line 201
InsFinal(r, O) ==
  /\ drv[r].pc = "ins_final"
  /\ \E o \in Allowed(O), ts \in Stamps(drv[r].runId, drv[r].slept) :
       /\ DriverLog(o, drv[r].runId, "info",
                    << "Build finished successfully in " >> \o drv[r].buildTime, ts)
       /\ drv' = [drv EXCEPT ![r].pc = After(o, "rpc"),
                             ![r].slept = IF o = "ok" THEN FALSE ELSE @,
                             ![r].skipped = @ \/ (o = "error"),
                             ![r].nfail = @ + Failed(o)]
  /\ resp' = NoResp
  /\ UNCHANGED << projects, runs, reqs, posts >>

\* the stored procedure increment_visitors(proj_id)
IncrementVisitors(projId) ==
  projects' = [projects EXCEPT ![projId].visitors = @ + 1]

AfterRpc_Unhandled(o) == IF o = "throw" THEN "catch_upd" ELSE "done"

\* where the driver goes after the call of line 203: .catch(() => {})
\* turns a rejection into a fulfilled promise
AfterRpc(o) == "done"

\* line 203: rpc('increment_visitors', { proj_id: project.id })
Rpc(r, O) ==
  /\ drv[r].pc = "rpc"
  /\ \E o \in Allowed(O) :
       /\ IF o = "ok" THEN IncrementVisitors(drv[r].proj)
          ELSE UNCHANGED projects
       /\ drv' = [drv EXCEPT ![r].pc = AfterRpc(o),
                             ![r].rpc = IF o = "ok" THEN "ok" ELSE "failed",
                             ![r].nfail = @ + Failed(o)]
  /\ resp' = NoResp
  /\ UNCHANGED << runs, run_logs, reqs, posts >>

\* line 206: the catch block marks the run failed (build_time is not written)
CatchUpd(r, O) ==
  /\ drv[r].pc = "catch_upd"
  /\ \E o \in Allowed(O) :
       /\ UpdateRun(o, drv[r].runId, "failed", TRUE,
                    runs[drv[r].runId].build_time)
       /\ drv' = [drv EXCEPT ![r].pc = AfterCatch(o, "catch_ins"),
                             ![r].upd = o,
                             ![r].catchFail = @ \/ (o # "ok"),
                             ![r].nfail = @ + Failed(o)]
  /\ resp' = NoResp
  /\ UNCHANGED << projects, run_logs, reqs, posts >>

\* line 207: 'Build failed: ' + String(err.message)
CatchIns(r, O) ==
  /\ drv[r].pc = "catch_ins"
  /\ \E o \in Allowed(O), ts \in Stamps(drv[r].runId, drv[r].slept) :
       /\ DriverLog(o, drv[r].runId, "error", << "Build failed: ", ErrMessage >>, ts)
       /\ drv' = [drv EXCEPT ![r].pc = AfterCatch(o, "done"),
                             ![r].catchFail = @ \/ (o # "ok"),
                             ![r].nfail = @ + Failed(o)]
  /\ resp' = NoResp
  /\ UNCHANGED << projects, runs, reqs, posts >>

Driver(r, O) ==
  \/ UpdRunning(r, O)
  \/ InsQueued(r, O)
  \/ InsStep(r, O)
  \/ UpdSuccess(r, O)
  \/ InsFinal(r, O)
  \/ Rpc(r, O)
  \/ CatchUpd(r, O)
  \/ CatchIns(r, O)

(* ------------------------ POST /api/logs/:runId ----------------------- *)
\* const { level = 'info', message = '' } = req.body; "" is an absent field
PostBodies == { [level |-> l, message |-> m] :
                  l \in {"", "error"}, m \in {"", "note"} }

Default(x, dflt) == IF x = "" THEN dflt ELSE x

RunExists_Any(runId) == TRUE

\* run_logs.run_id references runs(id)
RunExists(runId) == runId \in 1 .. Len(runs)

MessageMissing_Never(body) == FALSE

\* line 121: !message
MessageMissing(body) == Default(body.message, "") = ""

\* lines 117-129; the response also records, for the properties, the run id
\* and the message of the request
PostLog(runId, body) ==
  /\ IF MessageMissing(body)
     THEN /\ resp' = [ep |-> "logs", status |-> 400,
                      asked |-> runId, message |-> body.message]
          /\ UNCHANGED << run_logs, posts >>
     ELSE /\ posts < MaxPosts
          /\ posts' = posts + 1
          /\ IF RunExists(runId)
             THEN \E ts \in Stamps(runId, FALSE) :
                    /\ InsertLog(runId, Default(body.level, "info"),
                                 << body.message >>, "api", ts)
                    /\ resp' = [ep |-> "logs", status |-> 200,
                                asked |-> runId, message |-> body.message,
                                log |-> run_logs'[runId][Len(run_logs'[runId])]]
             ELSE /\ resp' = [ep |-> "logs", status |-> 500,
                              asked |-> runId, message |-> body.message]
                  /\ UNCHANGED run_logs
  /\ UNCHANGED << projects, runs, reqs, drv >>

(* ------------------------- GET /api/runs/:id -------------------------- *)
\* the entries of a run, by position in insertion order
EntriesOf(runId) == 1 .. Len(run_logs[runId])

\* select * from run_logs where run_id = runId order by ts asc: every
\* arrangement of the rows in which ts never decreases (rows with equal ts
\* come in whatever order the store produces)
RECURSIVE OrderByTs(_, _)
OrderByTs(logs, S) ==
  IF S = {} THEN { << >> }
  ELSE LET first == { k \in S : \A j \in S : logs[k].ts <= logs[j].ts }
       IN UNION { { << logs[k] >> \o rest : rest \in OrderByTs(logs, S \ {k}) }
                  : k \in first }

Forbidden_IfOwnedByOther(owner, user) == owner # "" /\ owner # user

\* line 106: project?.owner !== req.user.id
Forbidden(owner, user) == owner # user

\* lines 98-114: the body of the response is the fields run and logs (none
\* in an error response); caller and asked record, for the properties, who
\* asked for which run
GetRun(token, runId) ==
  /\ \E body \in
         IF verifyUser(token) = "" THEN { [status |-> 401] }
         ELSE IF ~ RunExists(runId) THEN { [status |-> 404] }
         ELSE IF Forbidden(projects[runs[runId].project_id].owner, verifyUser(token))
         THEN { [status |-> 403] }
         ELSE { [status |-> 200, run |-> runs[runId], logs |-> logs] :
                  logs \in OrderByTs(run_logs[runId], EntriesOf(runId)) } :
       resp' = body @@ [ep |-> "run", caller |-> verifyUser(token),
                        asked |-> runId]
  /\ UNCHANGED << projects, runs, run_logs, reqs, drv, posts >>

(* --------------------------- specifications --------------------------- *)
\* every request, every outcome of every store call of the drivers
Next ==
  \/ \E token \in Tokens, body \in Bodies : DeployReject(token, body)
  \/ \E token \in Tokens, body \in Bodies : DeployStart(token, body)
  \/ \E h \in 1 .. Len(reqs) : DeployHandler(h)
  \/ \E h \in 1 .. Len(reqs) : DeployUpdateOwnerLost(h)
  \/ \E r \in 1 .. Len(drv) : Driver(r, Outcomes)
  \/ \E runId \in RunIds, body \in PostBodies : PostLog(runId, body)
  \/ \E token \in Tokens, runId \in RunIds : GetRun(token, runId)

Spec == Init /\ [][Next]_vars

\* the deploys of one user, every outcome of the drivers' store calls
BuildBodies ==
  { [payload |-> [name |-> "alpha", repo |-> "r1", framework |-> "f1", region |-> ""]] }

NextBuild ==
  \/ \E body \in BuildBodies : DeployStart("t1", body)
  \/ \E h \in 1 .. Len(reqs) : DeployHandler(h)
  \/ \E r \in 1 .. Len(drv) : Driver(r, Outcomes)

SpecBuild == Init /\ [][NextBuild]_vars

\* one deploy and its driver, every outcome of the driver's store calls
NextOne ==
  \/ \E body \in BuildBodies : runs = << >> /\ reqs = << >> /\ DeployStart("t1", body)
  \/ \E h \in 1 .. Len(reqs) : DeployHandler(h)
  \/ \E r \in 1 .. Len(drv) : Driver(r, Outcomes)

\* the event loop runs every continuation that is ready: each store call of
\* the driver completes (with some outcome) and each stage timer fires
FairOne ==
  /\ Init /\ [][NextOne]_vars
  /\ \A r \in 1 .. MaxDeploys : WF_vars(r <= Len(drv) /\ Driver(r, Outcomes))

\* every deploy request; the drivers' store calls succeed
NextDeploy ==
  \/ \E token \in Tokens, body \in Bodies : DeployReject(token, body)
  \/ \E token \in Tokens, body \in Bodies : DeployStart(token, body)
  \/ \E h \in 1 .. Len(reqs) : DeployHandler(h)
  \/ \E r \in 1 .. Len(drv) : Driver(r, {"ok"})

SpecDeploy == Init /\ [][NextDeploy]_vars

\* one deploy and its driver, whose store calls succeed (the owner update
\* of the handler may be lost); log appends and reads by every caller
NextRead ==
  \/ \E body \in BuildBodies : runs = << >> /\ reqs = << >> /\ DeployStart("t1", body)
  \/ \E h \in 1 .. Len(reqs) : DeployHandler(h)
  \/ \E h \in 1 .. Len(reqs) : DeployUpdateOwnerLost(h)
  \/ \E r \in 1 .. Len(drv) : Driver(r, {"ok"})
  \/ \E runId \in RunIds, body \in PostBodies : PostLog(runId, body)
  \/ \E token \in Tokens, runId \in RunIds : GetRun(token, runId)

SpecRead == Init /\ [][NextRead]_vars

\* the requests of two users to every endpoint, up to the point where the
\* drivers the deploys have started make their first store call
NextRequests ==
  \/ \E token \in {"t1", "t2"}, body \in BuildBodies : DeployStart(token, body)
  \/ \E h \in 1 .. Len(reqs) : DeployHandler(h)
  \/ \E h \in 1 .. Len(reqs) : DeployUpdateOwnerLost(h)
  \/ \E runId \in RunIds, body \in PostBodies : PostLog(runId, body)
  \/ \E token \in Tokens, runId \in RunIds : GetRun(token, runId)

SpecRequests == Init /\ [][NextRequests]_vars

(* ------------------------------ properties ---------------------------- *)
Terminal == {"success", "failed"}

\* the promise simulateBuild returned is settled
Stopped(r) == drv[r].pc \in {"done", "rejected"}

IsDriver(e) == e.by = "driver"
IsDriverInfo(e) == e.by = "driver" /\ e.level = "info"
IsDriverError(e) == e.by = "driver" /\ e.level = "error"

DriverInfo(logs) == SelectSeq(logs, IsDriverInfo)
DriverErrors(logs) == SelectSeq(logs, IsDriverError)

\* failed calls of driver r other than the visitor-counter call
StepFailures(r) == drv[r].nfail - (IF drv[r].rpc = "failed" THEN 1 ELSE 0)

\* C1: the status of a run only ever goes queued -> running -> success or
\* failed; in particular it never changes once it is success or failed.
C1_StatusSequence ==
  [][\A r \in 1 .. Len(runs) :
       runs'[r].status # runs[r].status =>
         << runs[r].status, runs'[r].status >> \in
           { << "queued", "running" >>, << "running", "success" >>,
             << "running", "failed" >> }]_vars

\* C2: once a step of driver r (other than the visitor-counter call) has
\* failed, the driver appends no further info entry, and when it stops the
\* run is failed and its log holds the driver's error entry with the
\* failure description.
C2_FailureEndsFailed ==
  [][\A r \in 1 .. Len(drv) :
       StepFailures(r) > 0 =>
         /\ DriverInfo(run_logs'[r]) = DriverInfo(run_logs[r])
         /\ Stopped(r)' =>
              /\ runs'[r].status = "failed"
              /\ \E k \in 1 .. Len(run_logs'[r]) :
                   /\ IsDriverError(run_logs'[r][k])
                   /\ run_logs'[r][k].message = << "Build failed: ", ErrMessage >>]_vars

\* C3: after the visitor-counter call of driver r has failed, the driver is
\* done, the run is not failed and the driver has written no error entry;
\* when that call was the driver's only failure the run is success with its
\* build_time set.
C3_RpcFailureSwallowed ==
  \A r \in 1 .. Len(drv) :
    drv[r].rpc = "failed" =>
      /\ drv[r].pc = "done"
      /\ runs[r].status # "failed"
      /\ DriverErrors(run_logs[r]) = << >>
      /\ drv[r].nfail = 1 =>
           /\ runs[r].status = "success"
           /\ runs[r].build_time = drv[r].buildTime
           /\ runs[r].build_time # << >>

C3_Witness ==
  \E r \in 1 .. Len(drv) :
    /\ drv[r].rpc = "failed"
    /\ drv[r].nfail = 1
    /\ runs[r].status = "success"

C5_FinishedOutcome ==
  \A r \in 1 .. Len(drv) :
    Stopped(r) =>
      /\ runs[r].status = "failed" =>
           \E k \in 1 .. Len(run_logs[r]) : run_logs[r][k].level = "error"
      /\ runs[r].status = "success" => runs[r].build_time # << >>

\* C5 amended: once the driver has finished, a success run has a non-empty
\* build_time, and a failed run has the driver's error entry in its log
\* unless a store call of the catch block failed.
C5_FinishedOutcomeUnlessCatchFails ==
  \A r \in 1 .. Len(drv) :
    Stopped(r) =>
      /\ runs[r].status = "failed" /\ ~ drv[r].catchFail =>
           DriverErrors(run_logs[r]) # << >>
      /\ runs[r].status = "success" => runs[r].build_time # << >>

C5_Witness ==
  /\ \E r \in 1 .. Len(drv) :
       Stopped(r) /\ runs[r].status = "failed" /\ ~ drv[r].catchFail
  /\ \E r \in 1 .. Len(drv) : Stopped(r) /\ runs[r].status = "success"

\* the entries a driver writes when nothing fails, the last one for the
\* build time bt
Script(bt) ==
  << << "Build queued" >> >> \o
  [k \in 1 .. Len(steps) |-> << steps[k], "..." >>] \o
  << << "Build finished successfully in " >> \o bt >>

IsPrefix(s, t) == Len(s) <= Len(t) /\ s = SubSeq(t, 1, Len(s))

Messages(logs) == [k \in 1 .. Len(logs) |-> logs[k].message]

Places(ms, script) ==
  [k \in 1 .. Len(ms) |->
     IF \E n \in 1 .. Len(script) : script[n] = ms[k]
     THEN CHOOSE n \in 1 .. Len(script) : script[n] = ms[k]
     ELSE 0]

Increasing(ns) ==
  /\ \A k \in 1 .. Len(ns) : ns[k] > 0
  /\ \A k \in 1 .. Len(ns) - 1 : ns[k] < ns[k + 1]

NonDecreasing(logs) == \A k \in 1 .. Len(logs) - 1 : logs[k].ts <= logs[k + 1].ts

\* C6: the logs GET /api/runs/:id returns for a run never decrease in ts and
\* are the run's entries in the order they were appended.
C6_ReadInAppendOrder ==
  resp.ep = "run" /\ resp.status = 200 =>
    /\ NonDecreasing(resp.logs)
    /\ resp.logs = run_logs[resp.run.id]

\* rows of a projects table with the given name
NamedIn(table, name) == { k \in 1 .. Len(table) : table[k].name = name }

\* C8: a deploy handled with no other deploy in flight, for a name that one
\* project had when the request arrived, answers 200 having created no
\* project row: that project is still the only one of its name, its
\* repo/framework/region are the request's non-empty values (the old values
\* where the request has none), and its owner, if it had one, is unchanged.
C8_SecondDeployUpdatesInPlace ==
  ( /\ resp.ep = "deploy"
    /\ resp.status = 200
    /\ ~ resp.conc
    /\ Cardinality(NamedIn(resp.before, resp.name)) = 1 ) =>
    LET k == CHOOSE k \in NamedIn(resp.before, resp.name) : TRUE
        old == resp.before[k]
        new == projects[k]
        q == resp.payload
    IN /\ Len(projects) = Len(resp.before)
       /\ ByName(resp.name) = {k}
       /\ resp.projectId = k
       /\ new.repo = Or(q.repo, old.repo)
       /\ new.framework = Or(q.framework, old.framework)
       /\ new.region = Or(q.region, old.region)
       /\ old.owner # "" => new.owner = old.owner

C8_Witness ==
  /\ resp.ep = "deploy"
  /\ resp.status = 200
  /\ ~ resp.conc
  /\ \E k \in NamedIn(resp.before, resp.name) :
       /\ NamedIn(resp.before, resp.name) = {k}
       /\ resp.before[k].owner \notin {"", resp.user}
       /\ resp.payload.repo # ""
       /\ resp.before[k].repo # resp.payload.repo
       /\ projects[k].repo = resp.payload.repo

\* C9: the owner of a project, once set, is never cleared nor replaced by
\* another user id.
C9_OwnerSetOnce ==
  [][\A p \in 1 .. Len(projects) :
       projects[p].owner # "" => projects'[p].owner = projects[p].owner]_vars

Tables == << projects, runs, run_logs >>

\* C10 as stated: every deploy request whose payload has no name is
\* answered 400, changes no table and starts no driver.
C10_NoNameIs400 ==
  [][resp'.ep = "deploy" /\ ~ resp'.named =>
       /\ resp'.status = 400
       /\ UNCHANGED << Tables, drv, reqs >>]_vars

\* C10 amended: a deploy request whose payload has no name is answered 400
\* when the caller is authenticated and 401 when not; either way it changes
\* no table and starts no driver.
C10_NoNameIs400Or401 ==
  [][resp'.ep = "deploy" /\ ~ resp'.named =>
       /\ resp'.status = IF resp'.authed THEN 400 ELSE 401
       /\ UNCHANGED << Tables, drv, reqs >>]_vars

C10_Witness ==
  /\ resp.ep = "deploy"
  /\ ~ resp.named
  /\ resp.authed
  /\ resp.status = 400
  /\ runs # << >>
  /\ projects # << >>

\* C11: a read of an existing run by an authenticated caller who is not the
\* owner of the run's project (the project may have no owner) is answered
\* 403, and the response has no field besides the status: it is the same
\* whatever the run row and the run's log hold.
C11_ForbiddenLeaksNothing ==
  ( /\ resp.ep = "run"
    /\ resp.caller # ""
    /\ RunExists(resp.asked)
    /\ projects[runs[resp.asked].project_id].owner # resp.caller ) =>
    resp = [ep |-> "run", status |-> 403, caller |-> resp.caller,
            asked |-> resp.asked]

C11_Witness ==
  /\ resp.ep = "run"
  /\ resp.status = 403
  /\ resp.caller = "u2"
  /\ projects[runs[resp.asked].project_id].owner = "u1"
  /\ runs[resp.asked].status = "success"
  /\ Len(run_logs[resp.asked]) > 2

\* C12: a request to POST /api/logs/:runId whose message is empty or missing
\* is answered 400 and leaves the log of every run unchanged.
C12_EmptyMessageIs400 ==
  [][resp'.ep = "logs" /\ resp'.message = "" =>
       /\ resp'.status = 400
       /\ run_logs' = run_logs]_vars

C12_Witness ==
  /\ resp.ep = "logs"
  /\ resp.message = ""
  /\ resp.status = 400
  /\ RunExists(resp.asked)
  /\ run_logs[resp.asked] # << >>

C14_OneDriverPerRun ==
  /\ [](\A d1, d2 \in 1 .. Len(drv) : drv[d1].runId = drv[d2].runId => d1 = d2)
  /\ [][\A d \in 1 .. Len(drv') :
          d > Len(drv) =>
            /\ drv'[d].runId \notin 1 .. Len(runs)
            /\ drv'[d].runId = Len(runs')
            /\ resp'.ep = "deploy"
            /\ resp'.status = 200
            /\ resp'.runId = drv'[d].runId]_vars

C14_Witness ==
  /\ Len(drv) = 2
  /\ posts > 0
  /\ resp.ep = "run"
  /\ resp.status = 200

\* C15: the step of a deploy request that starts a driver also sends the
\* response, 200 with status 'queued', while the driver is still at its
\* first store call; and no step of a driver, failing or not, sends a
\* response or touches a request handler, so a failure in the driver stays
\* in the driver.
C15_DeployDoesNotWait ==
  /\ [][\A d \in 1 .. Len(drv') :
          d > Len(drv) =>
            /\ resp'.ep = "deploy"
            /\ resp'.status = 200
            /\ resp'.run_status = "queued"
            /\ resp'.runId = drv'[d].runId
            /\ drv'[d].pc = "upd_running"]_vars
  /\ [][(\E d \in 1 .. Len(drv) : drv'[d] # drv[d]) =>
          /\ resp' = NoResp
          /\ reqs' = reqs]_vars

C15_Witness ==
  /\ resp.ep = "deploy"
  /\ resp.status = 200
  /\ resp.run_status = "queued"
  /\ \E d \in 1 .. Len(drv) : drv[d].pc = "rejected" /\ drv[d].runId # resp.runId

\* C16: under any interleaving of deploy requests no two rows of the
\* projects table have the same name.
C16_UniqueNames ==
  \A p1, p2 \in 1 .. Len(projects) :
    projects[p1].name = projects[p2].name => p1 = p2

\* C17: a failed run has finished_at set and no build_time; a queued or
\* running run has neither finished_at nor build_time.
C17_FieldsMatchStatus ==
  \A r \in 1 .. Len(runs) :
    /\ runs[r].status = "failed" =>
         runs[r].finished_at /\ runs[r].build_time = << >>
    /\ runs[r].status \in {"queued", "running"} =>
         ~ runs[r].finished_at /\ runs[r].build_time = << >>

\* C18: a run whose log holds an entry appended by its driver is not queued.
C18_RunningBeforeFirstEntry ==
  \A d \in 1 .. Len(drv) :
    (\E k \in 1 .. Len(run_logs[drv[d].runId]) :
        IsDriver(run_logs[drv[d].runId][k])) =>
      runs[drv[d].runId].status # "queued"

\* rows p1 and p2 of the projects table differ in nothing but visitors
SameButVisitors(p1, p2) == [p1 EXCEPT !.visitors = 0] = [p2 EXCEPT !.visitors = 0]

\* C19: a step of the driver bound to run r adds and removes no run and no
\* project, leaves the row and the log of every other run unchanged, adds
\* to the log of r only entries with run_id = r, and changes no project
\* except the visitor counter of the project of r.
C19_DriverFrame ==
  [][\A d \in 1 .. Len(drv) :
       drv'[d] # drv[d] =>
         LET r == drv[d].runId
         IN /\ Len(runs') = Len(runs)
            /\ Len(projects') = Len(projects)
            /\ \A q \in 1 .. Len(runs) : q # r => runs'[q] = runs[q]
            /\ \A q \in RunIds : q # r => run_logs'[q] = run_logs[q]
            /\ IsPrefix(run_logs[r], run_logs'[r])
            /\ \A k \in 1 .. Len(run_logs'[r]) : run_logs'[r][k].run_id = r
            /\ \A p \in 1 .. Len(projects) :
                 \/ projects'[p] = projects[p]
                 \/ /\ p = runs[r].project_id
                    /\ SameButVisitors(projects'[p], projects[p])]_vars

C19_Witness ==
  \E d1, d2 \in 1 .. Len(drv) :
    /\ drv[d1].pc = "done"
    /\ runs[drv[d1].runId].status = "success"
    /\ projects[drv[d1].proj].visitors > 0
    /\ runs[drv[d2].runId].status = "running"
    /\ Len(run_logs[drv[d1].runId]) > Len(run_logs[drv[d2].runId])
    /\ run_logs[drv[d2].runId] # << >>
    /\ drv[d1].proj # drv[d2].proj

\* C20: a deploy request by user U changes repo, framework or region only
\* of a project that has no owner or is owned by U, and creates a run only
\* under a project owned by U, so that U, who is sent the run id, passes the
\* owner check of GET /api/runs/:id for that run.
C20_DeployOnlyOnOwnProject ==
  [][/\ \A p \in 1 .. Len(projects) :
          ( /\ projects[p].owner # ""
            /\ << projects'[p].repo, projects'[p].framework, projects'[p].region >>
                 # << projects[p].repo, projects[p].framework, projects[p].region >> ) =>
            \E h \in 1 .. Len(reqs) :
              /\ reqs[h].pc = "upd_fields"
              /\ reqs'[h].pc = "ins_run"
              /\ reqs[h].project.id = p
              /\ reqs[h].user = projects[p].owner
     /\ Len(runs') > Len(runs) =>
          /\ resp'.ep = "deploy"
          /\ resp'.status = 200
          /\ projects'[runs'[resp'.runId].project_id].owner = resp'.user
          /\ ~ Forbidden(projects'[runs'[resp'.runId].project_id].owner,
                         resp'.user)]_vars

====
